---- MODULE Spec2Model ----
(***************************************************************************)
(* Model of the putio-sync Store (package sync): a bolt database file with *)
(* one top-level bucket per user plus the global "defaults" bucket, gob    *)
(* encoded State and Config records, and the default-config fallback.      *)
(*                                                                         *)
(* Byte strings that the code builds from integers or gob streams are      *)
(* sequences of naturals; bucket names and the current-user value are      *)
(* strings, as the code converts them with []byte(s) / string(b) only.     *)
(* Durations are counted in seconds (TLC integers are 32 bits wide).       *)
(***************************************************************************)
EXTENDS Integers, Sequences, FiniteSets, TLC

\* ------------------------------------------------------------------ bounds

\* Number of committed write transactions explored per behaviour.
MaxWrites == 3

\* ------------------------------------------------------- program constants

downloadItemsBucket == "download-items"
watchedTorrentsBucket == "watched-torrents"
defaultsBucket == "defaults"

configKey == "config"
currentUserKey == "current-user"

ErrStateNotFound == "state not found"
ErrConfigNotFound == "configuration not found"

\* Errors of the libraries the store passes through unchanged.
ErrBucketNameRequired == "bucket name required"
ErrDatabaseNotOpen == "database not open"
ErrTimeout == "timeout"
ErrIO == "i/o error"
ErrUserCurrent == "user: Current failed"
ErrGob == "gob: decode failed"
NoError == "nil"

\* time.Minute, in seconds.
Minute == 60

defaultSegmentsPerFile == 3
defaultMaxParallelFiles == 2
defaultDownloadFrom == -1
defaultPollInterval == 2 * Minute

\* ------------------------------------------------------------ input domains

\* "" is the unset user, "defaults" collides with the global bucket's name.
Users == {"", "alice", "bob", "defaults"}

\* Identifiers on both sides of zero and on both sides of a byte boundary.
FileIDs == {-1, 1, 256}

\* The home directory user.Current() reports: "/h".
HomeDir == <<47, 104>>

\* "putio-sync"
AppDirName == <<112, 117, 116, 105, 111, 45, 115, 121, 110, 99>>

\* -------------------------------------------------------------- byte strings

\* bytes.Compare(a, b) < 0: the order in which a bolt cursor visits keys.
RECURSIVE BytesLess(_, _)
BytesLess(a, b) ==
    IF b = <<>> THEN FALSE
    ELSE IF a = <<>> THEN TRUE
    ELSE IF Head(a) # Head(b) THEN Head(a) < Head(b)
    ELSE BytesLess(Tail(a), Tail(b))

\* byte(uint64(v) >> (8*k)): two's complement, so floor division suffices.
RECURSIVE ByteAt(_, _)
ByteAt(v, k) == IF k = 0 THEN v % 256 ELSE ByteAt(v \div 256, k - 1)

\* binary.BigEndian.PutUint64(b, uint64(v)) on an 8 byte slice.
itob(v) == [i \in 1..8 |-> ByteAt(v, 8 - i)]

\* The keys of a bucket in cursor order (First, then Next until nil).
RECURSIVE CursorOrder(_)
CursorOrder(keys) ==
    IF keys = {} THEN <<>>
    ELSE LET k == CHOOSE x \in keys : \A y \in keys \ {x} : BytesLess(x, y)
         IN <<k>> \o CursorOrder(keys \ {k})

\* ------------------------------------------------------------------- gob

\* A struct type is the sequence of its exported fields in declaration order.
StateType ==
    << [name |-> "FileID", kind |-> "int"],
       [name |-> "IsHidden", kind |-> "bool"] >>

ConfigType ==
    << [name |-> "PollInterval", kind |-> "int"],
       [name |-> "DownloadTo", kind |-> "string"],
       [name |-> "DownloadFrom", kind |-> "int"],
       [name |-> "SegmentsPerFile", kind |-> "uint"],
       [name |-> "MaxParallelFiles", kind |-> "uint"],
       [name |-> "OAuth2Token", kind |-> "string"],
       [name |-> "WatchTorrentsFolder", kind |-> "bool"],
       [name |-> "TorrentsFolder", kind |-> "string"],
       [name |-> "IsPaused", kind |-> "bool"],
       [name |-> "DeleteRemoteFile", kind |-> "bool"] >>

ZeroOf(kind) ==
    CASE kind = "int" -> 0
      [] kind = "uint" -> 0
      [] kind = "bool" -> FALSE
      [] kind = "string" -> <<>>

\* var v T: every field at its zero value.
ZeroValue(type) ==
    [n \in {type[i].name : i \in 1..Len(type)} |->
        LET i == CHOOSE j \in 1..Len(type) : type[j].name = n
        IN ZeroOf(type[i].kind)]

\* encodeInt: the sign moves to bit 0, negative values are complemented.
EncInt(i) == IF i < 0 THEN 2 * (-i - 1) + 1 ELSE 2 * i

\* decodeInt, the inverse of encodeInt.
DecInt(u) == IF u % 2 = 1 THEN -((u - 1) \div 2) - 1 ELSE u \div 2

\* The tokens of one field value.
EncValue(kind, x) ==
    CASE kind = "int" -> <<EncInt(x)>>
      [] kind = "uint" -> <<x>>
      [] kind = "bool" -> <<1>>
      [] kind = "string" -> <<Len(x)>> \o x

\* EncFields with a slip: the field number is sent instead of its distance
\* from the last field sent.
RECURSIVE EncFieldsAbsolute(_, _, _, _)
EncFieldsAbsolute(type, v, i, prev) ==
    IF i > Len(type) THEN <<0>>
    ELSE LET f == type[i]
         IN IF v[f.name] = ZeroOf(f.kind)
            THEN EncFieldsAbsolute(type, v, i + 1, prev)
            ELSE <<i>> \o EncValue(f.kind, v[f.name])
                     \o EncFieldsAbsolute(type, v, i + 1, i)

\* Fields i..Len(type) of v; prev is the number of the last field sent.
\* A field at its zero value is not sent.
RECURSIVE EncFields(_, _, _, _)
EncFields(type, v, i, prev) ==
    IF i > Len(type) THEN <<0>>
    ELSE LET f == type[i]
         IN IF v[f.name] = ZeroOf(f.kind)
            THEN EncFields(type, v, i + 1, prev)
            ELSE <<i - prev>> \o EncValue(f.kind, v[f.name])
                     \o EncFields(type, v, i + 1, i)

\* gob.NewEncoder(&value).Encode(v): the struct's value stream.
GobEncode(type, v) == EncFields(type, v, 1, 0)

\* Decoding of the stream s from position pos into acc; fnum is the number
\* of the last field read. A stream that ends early, names a field the
\* type does not have or carries an impossible value is an error.
RECURSIVE DecFields(_, _, _, _, _)
DecFields(type, s, pos, fnum, acc) ==
    IF pos > Len(s) THEN [err |-> ErrGob, val |-> acc]
    ELSE IF s[pos] = 0
         THEN [err |-> IF pos = Len(s) THEN NoError ELSE ErrGob, val |-> acc]
    ELSE LET i == fnum + s[pos]
         IN IF i > Len(type) \/ pos + 1 > Len(s)
            THEN [err |-> ErrGob, val |-> acc]
            ELSE LET f == type[i]
                     t == s[pos + 1]
                 IN CASE f.kind = "int" ->
                           DecFields(type, s, pos + 2, i,
                                     [acc EXCEPT ![f.name] = DecInt(t)])
                      [] f.kind = "uint" ->
                           DecFields(type, s, pos + 2, i,
                                     [acc EXCEPT ![f.name] = t])
                      [] f.kind = "bool" ->
                           IF t > 1 THEN [err |-> ErrGob, val |-> acc]
                           ELSE DecFields(type, s, pos + 2, i,
                                          [acc EXCEPT ![f.name] = (t = 1)])
                      [] f.kind = "string" ->
                           IF pos + 1 + t > Len(s)
                           THEN [err |-> ErrGob, val |-> acc]
                           ELSE DecFields(type, s, pos + 2 + t, i,
                                    [acc EXCEPT ![f.name] =
                                        SubSeq(s, pos + 2, pos + 1 + t)])

\* gob.NewDecoder(bytes.NewReader(value)).Decode(&v) with v the zero value.
GobDecode(type, s) == DecFields(type, s, 1, 0, ZeroValue(type))

\* ------------------------------------------------------------ record values

\* The State values the callers pass to SaveState.
StateValues == [FileID : FileIDs, IsHidden : BOOLEAN]

ZeroConfig == ZeroValue(ConfigType)

\* A configuration that differs from the default in every field.
CustomConfig ==
    [PollInterval |-> 30, DownloadTo |-> <<47, 100>>, DownloadFrom |-> -7,
     SegmentsPerFile |-> 8, MaxParallelFiles |-> 1, OAuth2Token |-> <<116>>,
     WatchTorrentsFolder |-> TRUE, TorrentsFolder |-> <<47, 116>>,
     IsPaused |-> FALSE, DeleteRemoteFile |-> TRUE]

\* The Config values the callers pass to SaveConfig.
ConfigValues == {ZeroConfig, CustomConfig}

\* filepath.Join(dir, name) for clean, non-empty name.
PathJoin(dir, name) == IF dir = <<>> THEN name ELSE dir \o <<47>> \o name

\* The Config literal DefaultConfig returns when user.Current() succeeds.
ComputedDefault ==
    [PollInterval |-> defaultPollInterval,
     DownloadTo |-> PathJoin(HomeDir, AppDirName),
     DownloadFrom |-> defaultDownloadFrom,
     SegmentsPerFile |-> defaultSegmentsPerFile,
     MaxParallelFiles |-> defaultMaxParallelFiles,
     OAuth2Token |-> <<>>,
     WatchTorrentsFolder |-> FALSE,
     TorrentsFolder |-> <<>>,
     IsPaused |-> TRUE,
     DeleteRemoteFile |-> FALSE]

\* ------------------------------------------------------------------ state

VARIABLES
    handle,       \* Store.db: "nil" before Open, then "open" or "closed"
    db,           \* the database file: top-level bucket name -> bucket
    ret,          \* what the last call returned to its caller
    writes,       \* committed write transactions so far
    provisioned,  \* history: users for whom CreateBuckets has succeeded
    savedStates,  \* history: <<user, FileID>> -> the States saved there, in order
    savedConfigs, \* history: user -> the Configs saved for it, in order
    savedUsers,   \* history: the user names saved as current user, in order
    procs,        \* concurrent callers: caller -> its call, transaction, outcome
    wlock,        \* the caller holding bolt's writer lock, 0 when it is free
    versions      \* history: the committed states of the file, in commit order

vars == <<handle, db, ret, writes, provisioned, savedStates, savedConfigs,
          savedUsers, procs, wlock, versions>>

hist == <<provisioned, savedStates, savedConfigs, savedUsers>>

\* The state of the concurrent callers; calls made one after the other
\* leave it alone.
conc == <<procs, wlock, versions>>

\* A map with no entries.
EmptyMap == [x \in {} |-> x]

\* m with k bound to v (insert or overwrite): Bucket.Put.
MapPut(m, k, v) == [x \in DOMAIN m \cup {k} |-> IF x = k THEN v ELSE m[x]]

\* The history h with v appended to the sequence at k.
Record(h, k, v) == MapPut(h, k, (IF k \in DOMAIN h THEN h[k] ELSE <<>>) \o <<v>>)

\* The last element of a non-empty sequence.
Last(s) == s[Len(s)]

\* A bucket holds plain keys and nested buckets.
EmptyBucket == [keys |-> EmptyMap, buckets |-> EmptyMap]

\* TxCreateBucketIfNotExists with a slip: the bucket is created afresh even
\* when it exists.
TxCreateBucket(d, name) == MapPut(d, name, EmptyBucket)

\* Tx.CreateBucketIfNotExists(name) at the top level; the name is not empty.
TxCreateBucketIfNotExists(d, name) ==
    IF name \in DOMAIN d THEN d ELSE MapPut(d, name, EmptyBucket)

\* BucketCreateBucketIfNotExists with a slip: an existing child bucket is
\* replaced by an empty one.
BucketCreateBucket(b, name) ==
    [b EXCEPT !.buckets = MapPut(b.buckets, name, EmptyMap)]

\* Bucket.CreateBucketIfNotExists(name) on bucket b.
BucketCreateBucketIfNotExists(b, name) ==
    IF name \in DOMAIN b.buckets THEN b
    ELSE [b EXCEPT !.buckets = MapPut(b.buckets, name, EmptyMap)]

\* Outcomes of a call: a normal return of (val, err), or a run-time panic.
Return(val, err) == [out |-> "return", val |-> val, err |-> err]

Panic == [out |-> "panic", val |-> <<>>, err |-> "nil pointer dereference"]

\* The result of a transaction function: the bucket tree it leaves and its
\* outcome.
TxResult(d, outcome) == [db |-> d, res |-> outcome]

\* --------------------------------------------------- transaction functions

\* The function CreateBuckets passes to db.Update.
CreateBucketsTx(d, forUser) ==
    IF forUser = ""
    THEN TxResult(d, Return(<<>>, ErrBucketNameRequired))
    ELSE LET d1 == TxCreateBucketIfNotExists(d, forUser)
             b1 == BucketCreateBucketIfNotExists(d1[forUser], downloadItemsBucket)
             b2 == BucketCreateBucketIfNotExists(b1, watchedTorrentsBucket)
         IN TxResult([d1 EXCEPT ![forUser] = b2], Return(<<>>, NoError))

\* SaveStateTx with a slip: the key is made from the low byte of the
\* FileID only.
SaveStateTxLowByteKey(d, state, forUser) ==
    IF forUser \notin DOMAIN d THEN TxResult(d, Panic)
    ELSE IF downloadItemsBucket \notin DOMAIN d[forUser].buckets
         THEN TxResult(d, Panic)
    ELSE LET key == itob(state.FileID % 256)
             value == GobEncode(StateType, state)
             items == d[forUser].buckets[downloadItemsBucket]
         IN TxResult(
              [d EXCEPT ![forUser].buckets[downloadItemsBucket] =
                            MapPut(items, key, value)],
              Return(<<>>, NoError))

\* SaveStateTx with a slip: an existing key is left as it is.
SaveStateTxInsertOnly(d, state, forUser) ==
    IF forUser \notin DOMAIN d THEN TxResult(d, Panic)
    ELSE IF downloadItemsBucket \notin DOMAIN d[forUser].buckets
         THEN TxResult(d, Panic)
    ELSE LET key == itob(state.FileID)
             value == GobEncode(StateType, state)
             items == d[forUser].buckets[downloadItemsBucket]
         IN TxResult(
              [d EXCEPT ![forUser].buckets[downloadItemsBucket] =
                            IF key \in DOMAIN items THEN items
                            ELSE MapPut(items, key, value)],
              Return(<<>>, NoError))

\* The function SaveState passes to db.Update. tx.Bucket yields nil for a
\* missing bucket; calling Bucket or Put on the nil bucket panics.
SaveStateTx(d, state, forUser) ==
    IF forUser \notin DOMAIN d THEN TxResult(d, Panic)
    ELSE IF downloadItemsBucket \notin DOMAIN d[forUser].buckets
         THEN TxResult(d, Panic)
    ELSE LET key == itob(state.FileID)
             value == GobEncode(StateType, state)
             items == d[forUser].buckets[downloadItemsBucket]
         IN TxResult(
              [d EXCEPT ![forUser].buckets[downloadItemsBucket] =
                            MapPut(items, key, value)],
              Return(<<>>, NoError))

\* StateTx with a slip: a missing key is not reported.
StateTxNilOnMissing(d, id, forUser) ==
    IF forUser \notin DOMAIN d THEN Panic
    ELSE IF downloadItemsBucket \notin DOMAIN d[forUser].buckets THEN Panic
    ELSE LET items == d[forUser].buckets[downloadItemsBucket]
             fileID == itob(id)
         IN IF fileID \notin DOMAIN items
            THEN Return(<<ZeroValue(StateType)>>, NoError)
            ELSE LET dec == GobDecode(StateType, items[fileID])
                 IN Return(<<dec.val>>, dec.err)

\* The function State passes to db.View; state is the zero State until
\* Decode fills it.
StateTx(d, id, forUser) ==
    IF forUser \notin DOMAIN d THEN Panic
    ELSE IF downloadItemsBucket \notin DOMAIN d[forUser].buckets THEN Panic
    ELSE LET items == d[forUser].buckets[downloadItemsBucket]
             fileID == itob(id)
         IN IF fileID \notin DOMAIN items
            THEN Return(<<ZeroValue(StateType)>>, ErrStateNotFound)
            ELSE LET dec == GobDecode(StateType, items[fileID])
                 IN Return(<<dec.val>>, dec.err)

\* StatesLoop with a slip: hidden records are not skipped.
RECURSIVE StatesLoopNoFilter(_, _, _)
StatesLoopNoFilter(items, ks, states) ==
    IF ks = <<>> THEN Return(states, NoError)
    ELSE LET dec == GobDecode(StateType, items[Head(ks)])
         IN IF dec.err # NoError THEN Return(states, dec.err)
            ELSE StatesLoopNoFilter(items, Tail(ks), Append(states, dec.val))

\* The cursor loop of States over the keys ks (in cursor order): states
\* collects the records that are not hidden, a decode error ends the loop.
RECURSIVE StatesLoop(_, _, _)
StatesLoop(items, ks, states) ==
    IF ks = <<>> THEN Return(states, NoError)
    ELSE LET dec == GobDecode(StateType, items[Head(ks)])
         IN IF dec.err # NoError THEN Return(states, dec.err)
            ELSE IF dec.val.IsHidden THEN StatesLoop(items, Tail(ks), states)
            ELSE StatesLoop(items, Tail(ks), Append(states, dec.val))

\* The function States passes to db.View.
StatesTx(d, forUser) ==
    IF forUser \notin DOMAIN d THEN Panic
    ELSE IF downloadItemsBucket \notin DOMAIN d[forUser].buckets THEN Panic
    ELSE LET items == d[forUser].buckets[downloadItemsBucket]
         IN StatesLoop(items, CursorOrder(DOMAIN items), <<>>)

\* The function Config passes to db.View; Get on the nil bucket panics.
ConfigTx(d, forUser) ==
    IF forUser \notin DOMAIN d THEN Panic
    ELSE IF configKey \notin DOMAIN d[forUser].keys
         THEN Return(<<ZeroConfig>>, ErrConfigNotFound)
    ELSE LET dec == GobDecode(ConfigType, d[forUser].keys[configKey])
         IN Return(<<dec.val>>, dec.err)

\* SaveConfigTx with a slip: the configuration is stored under one key of
\* the global bucket, whoever the user is.
SaveConfigTxGlobal(d, cfg, forUser) ==
    IF forUser \notin DOMAIN d THEN TxResult(d, Panic)
    ELSE TxResult(
           [d EXCEPT ![defaultsBucket].keys =
                         MapPut(@, configKey, GobEncode(ConfigType, cfg))],
           Return(<<>>, NoError))

\* The function SaveConfig passes to db.Update.
SaveConfigTx(d, cfg, forUser) ==
    IF forUser \notin DOMAIN d THEN TxResult(d, Panic)
    ELSE TxResult(
           [d EXCEPT ![forUser].keys =
                         MapPut(@, configKey, GobEncode(ConfigType, cfg))],
           Return(<<>>, NoError))

\* The function CurrentUser passes to db.View: string(nil) is "".
CurrentUserTx(d) ==
    IF defaultsBucket \notin DOMAIN d THEN Panic
    ELSE IF currentUserKey \notin DOMAIN d[defaultsBucket].keys
         THEN Return("", NoError)
    ELSE Return(d[defaultsBucket].keys[currentUserKey], NoError)

\* The function SaveCurrentUser passes to db.Update.
SaveCurrentUserTx(d, username) ==
    IF defaultsBucket \notin DOMAIN d THEN TxResult(d, Panic)
    ELSE TxResult(
           [d EXCEPT ![defaultsBucket].keys = MapPut(@, currentUserKey, username)],
           Return(<<>>, NoError))

\* DefaultConfig: userOK is whether user.Current() succeeds.
DefaultConfig(userOK) ==
    IF ~userOK THEN Return(<<>>, ErrUserCurrent)
    ELSE Return(<<ComputedDefault>>, NoError)

\* ConfigFallback with a slip: ErrConfigNotFound is returned like any error.
ConfigNoFallback(v, userOK) == v

\* The end of Config: v is what the view returned; ErrConfigNotFound is
\* replaced by the default configuration, anything else is returned as is.
ConfigFallback(v, userOK) ==
    IF v.out = "return" /\ v.err = ErrConfigNotFound
    THEN DefaultConfig(userOK)
    ELSE v

\* db.View(fn) on handle h: a nil *bolt.DB panics, a closed one refuses.
\* closedVal is the value the caller returns next to the error.
View(h, outcome, closedVal) ==
    IF h = "nil" THEN Panic
    ELSE IF h = "closed" THEN Return(closedVal, ErrDatabaseNotOpen)
    ELSE outcome

\* db.Update(fn) on handle h: commits what fn wrote when fn returns nil and
\* rolls back when fn returns an error or panics.
Update(h, d, tx) ==
    IF h = "nil" THEN TxResult(d, Panic)
    ELSE IF h = "closed" THEN TxResult(d, Return(<<>>, ErrDatabaseNotOpen))
    ELSE IF tx.res.out = "return" /\ tx.res.err = NoError THEN tx
    ELSE TxResult(d, tx.res)

\* Whether an Update outcome committed.
Committed(u) == u.res.out = "return" /\ u.res.err = NoError

\* The record of a call: operation, user and file id it was about, outcome.
Call(op, user, id, outcome) ==
    [op |-> op, user |-> user, id |-> id,
     out |-> outcome.out, val |-> outcome.val, err |-> outcome.err]

\* ------------------------------------------------------------------ actions

\* NewStore(path): no handle yet, the file at path does not exist.
Init ==
    /\ handle = "nil"
    /\ db = EmptyMap
    /\ ret = Call("NewStore", "", 0, Return(<<>>, NoError))
    /\ writes = 0
    /\ provisioned = {}
    /\ savedStates = EmptyMap
    /\ savedConfigs = EmptyMap
    /\ savedUsers = <<>>
    /\ procs = EmptyMap
    /\ wlock = 0
    /\ versions = <<>>

\* Open with a slip: the file is created afresh, so what an earlier
\* session stored is gone.
OpenTruncate ==
    \E openOK, updateOK, closeOK \in BOOLEAN :
       /\ IF handle = "open"
          THEN /\ ret' = Call("Open", "", 0, Return(<<>>, ErrTimeout))
               /\ UNCHANGED <<handle, db>>
          ELSE IF ~openOK
          THEN /\ ret' = Call("Open", "", 0, Return(<<>>, ErrIO))
               /\ UNCHANGED <<handle, db>>
          ELSE IF ~updateOK
          THEN /\ handle' = "closed"
               /\ ret' = Call("Open", "", 0,
                              Return(<<>>, IF closeOK THEN NoError ELSE ErrIO))
               /\ UNCHANGED db
          ELSE /\ handle' = "open"
               /\ db' = TxCreateBucketIfNotExists(EmptyMap, defaultsBucket)
               /\ ret' = Call("Open", "", 0, Return(<<>>, NoError))
       /\ UNCHANGED <<writes, hist, conc>>

\* Open. bolt.Open waits for the file lock and times out while this store
\* already holds it; otherwise it may fail (openOK), and so may the
\* transaction that creates the defaults bucket (updateOK), after which
\* Open returns whatever Close returns (closeOK).
Open ==
    \E openOK, updateOK, closeOK \in BOOLEAN :
       /\ IF handle = "open"
          THEN /\ ret' = Call("Open", "", 0, Return(<<>>, ErrTimeout))
               /\ UNCHANGED <<handle, db>>
          ELSE IF ~openOK
          THEN /\ ret' = Call("Open", "", 0, Return(<<>>, ErrIO))
               /\ UNCHANGED <<handle, db>>
          ELSE IF ~updateOK
          THEN /\ handle' = "closed"
               /\ ret' = Call("Open", "", 0,
                              Return(<<>>, IF closeOK THEN NoError ELSE ErrIO))
               /\ UNCHANGED db
          ELSE /\ handle' = "open"
               /\ db' = TxCreateBucketIfNotExists(db, defaultsBucket)
               /\ ret' = Call("Open", "", 0, Return(<<>>, NoError))
       /\ UNCHANGED <<writes, hist, conc>>

\* Close: bolt's Close on a closed handle is a no-op.
Close ==
    /\ IF handle = "nil"
       THEN /\ ret' = Call("Close", "", 0, Panic)
            /\ UNCHANGED handle
       ELSE /\ handle' = "closed"
            /\ ret' = Call("Close", "", 0, Return(<<>>, NoError))
    /\ UNCHANGED <<db, writes, hist, conc>>

\* What a call of an updating method does to the file, the call record and
\* the write counter.
DoUpdate(op, user, id, upd) ==
    /\ writes < MaxWrites
    /\ db' = upd.db
    /\ ret' = Call(op, user, id, upd.res)
    /\ writes' = IF Committed(upd) THEN writes + 1 ELSE writes
    /\ UNCHANGED <<handle, conc>>

CreateBuckets(forUser) ==
    LET upd == Update(handle, db, CreateBucketsTx(db, forUser))
    IN /\ DoUpdate("CreateBuckets", forUser, 0, upd)
       /\ provisioned' = IF Committed(upd) THEN provisioned \cup {forUser}
                         ELSE provisioned
       /\ UNCHANGED <<savedStates, savedConfigs, savedUsers>>

SaveState(state, forUser) ==
    LET upd == Update(handle, db, SaveStateTx(db, state, forUser))
    IN /\ DoUpdate("SaveState", forUser, state.FileID, upd)
       /\ savedStates' = IF Committed(upd)
                         THEN Record(savedStates, <<forUser, state.FileID>>, state)
                         ELSE savedStates
       /\ UNCHANGED <<provisioned, savedConfigs, savedUsers>>

State(id, forUser) ==
    /\ ret' = Call("State", forUser, id,
                   View(handle, StateTx(db, id, forUser),
                        <<ZeroValue(StateType)>>))
    /\ UNCHANGED <<handle, db, writes, hist, conc>>

\* States with a slip: the empty user is looked up like any other.
StatesNoEmptyCheck(forUser) ==
    /\ ret' = Call("States", forUser, 0,
                   View(handle, StatesTx(db, forUser), <<>>))
    /\ UNCHANGED <<handle, db, writes, hist, conc>>

States(forUser) ==
    /\ ret' = Call("States", forUser, 0,
                   IF forUser = "" THEN Return(<<>>, NoError)
                   ELSE View(handle, StatesTx(db, forUser), <<>>))
    /\ UNCHANGED <<handle, db, writes, hist, conc>>

Config(forUser) ==
    \E userOK \in BOOLEAN :
       /\ ret' = Call("Config", forUser, 0,
                      IF forUser = "" THEN DefaultConfig(userOK)
                      ELSE ConfigFallback(
                             View(handle, ConfigTx(db, forUser), <<ZeroConfig>>),
                             userOK))
       /\ UNCHANGED <<handle, db, writes, hist, conc>>

SaveConfig(cfg, forUser) ==
    LET upd == Update(handle, db, SaveConfigTx(db, cfg, forUser))
    IN /\ DoUpdate("SaveConfig", forUser, 0, upd)
       /\ savedConfigs' = IF Committed(upd) THEN Record(savedConfigs, forUser, cfg)
                          ELSE savedConfigs
       /\ UNCHANGED <<provisioned, savedStates, savedUsers>>

CurrentUser ==
    /\ ret' = Call("CurrentUser", "", 0, View(handle, CurrentUserTx(db), ""))
    /\ UNCHANGED <<handle, db, writes, hist, conc>>

SaveCurrentUser(username) ==
    LET upd == Update(handle, db, SaveCurrentUserTx(db, username))
    IN /\ DoUpdate("SaveCurrentUser", username, 0, upd)
       /\ savedUsers' = IF Committed(upd) THEN Append(savedUsers, username)
                        ELSE savedUsers
       /\ UNCHANGED <<provisioned, savedStates, savedConfigs>>

Next ==
    \/ Open
    \/ Close
    \/ \E u \in Users : CreateBuckets(u)
    \/ \E u \in Users, s \in StateValues : SaveState(s, u)
    \/ \E u \in Users, id \in FileIDs : State(id, u)
    \/ \E u \in Users : States(u)
    \/ \E u \in Users : Config(u)
    \/ \E u \in Users, c \in ConfigValues : SaveConfig(c, u)
    \/ CurrentUser
    \/ \E u \in Users : SaveCurrentUser(u)

Spec == Init /\ [][Next]_vars

\* ------------------------------------------------------ undecodable records

\* The bytes stored for file id under user u are damaged behind the
\* store's back (a torn or foreign write to the file): the value loses its
\* end, and gob can no longer decode it.
Corrupt(u, id) ==
    /\ u \in DOMAIN db
    /\ downloadItemsBucket \in DOMAIN db[u].buckets
    /\ itob(id) \in DOMAIN db[u].buckets[downloadItemsBucket]
    /\ LET v == db[u].buckets[downloadItemsBucket][itob(id)]
       IN /\ GobDecode(StateType, v).err = NoError
          /\ db' = [db EXCEPT ![u].buckets[downloadItemsBucket][itob(id)] =
                                  SubSeq(v, 1, Len(v) - 1)]
    /\ ret' = Call("Corrupt", u, id, Return(<<>>, NoError))
    /\ UNCHANGED <<handle, writes, hist, conc>>

NextCorrupt ==
    \/ Next
    \/ \E u \in Users, id \in FileIDs : Corrupt(u, id)

SpecCorrupt == Init /\ [][NextCorrupt]_vars

\* --------------------------------------------------------- concurrent calls

\* Callers that use the one open handle at the same time; each makes one
\* call.
Callers == {1, 2, 3}

\* A call: the method, the user and file id it names, the record it passes.
CallOf(op, user, id, arg) == [op |-> op, user |-> user, id |-> id, arg |-> arg]

\* The calls the callers choose from: writes and reads of a provisioned
\* user ("alice") and of one that was never provisioned ("bob").
ConcCalls ==
    { CallOf("SaveState", "alice", 1, [FileID |-> 1, IsHidden |-> TRUE]),
      CallOf("SaveState", "alice", 256, [FileID |-> 256, IsHidden |-> FALSE]),
      CallOf("SaveState", "bob", 1, [FileID |-> 1, IsHidden |-> FALSE]),
      CallOf("SaveConfig", "alice", 0, CustomConfig),
      CallOf("State", "alice", 1, <<>>),
      CallOf("States", "alice", 0, <<>>),
      CallOf("Config", "alice", 0, <<>>),
      CallOf("Config", "bob", 0, <<>>) }

IsWrite(c) == c.op \in {"SaveState", "SaveConfig"}

\* The function a writing method passes to db.Update, run on the tree d.
WriteTx(d, c) ==
    CASE c.op = "SaveState" -> SaveStateTx(d, c.arg, c.user)
      [] c.op = "SaveConfig" -> SaveConfigTx(d, c.arg, c.user)

\* What a reading method returns when its one View transaction sees d.
ReadOutcome(d, c, userOK) ==
    CASE c.op = "State" -> View(handle, StateTx(d, c.id, c.user),
                                <<ZeroValue(StateType)>>)
      [] c.op = "States" -> View(handle, StatesTx(d, c.user), <<>>)
      [] c.op = "Config" ->
            ConfigFallback(View(handle, ConfigTx(d, c.user), <<ZeroConfig>>),
                           userOK)

\* A caller that has not called yet.
Idle ==
    [pc |-> "idle", call |-> CallOf("", "", 0, <<>>), tx |-> EmptyMap,
     out |-> Return(<<>>, NoError), begin |-> 0, end |-> 0,
     last |-> <<>>, states |-> <<>>]

\* The file after Open(), CreateBuckets("alice") and
\* SaveState(&State{FileID: 1}, "alice").
ConcStartDb ==
    LET d0 == TxCreateBucketIfNotExists(EmptyMap, defaultsBucket)
        d1 == CreateBucketsTx(d0, "alice").db
    IN SaveStateTx(d1, [FileID |-> 1, IsHidden |-> FALSE], "alice").db

\* The callers start on the open store those three calls leave.
InitConc ==
    /\ handle = "open"
    /\ db = ConcStartDb
    /\ ret = Call("SaveState", "alice", 1, Return(<<>>, NoError))
    /\ writes = 2
    /\ provisioned = {"alice"}
    /\ savedStates = Record(EmptyMap, <<"alice", 1>>,
                            [FileID |-> 1, IsHidden |-> FALSE])
    /\ savedConfigs = EmptyMap
    /\ savedUsers = <<>>
    /\ procs = [p \in Callers |-> Idle]
    /\ wlock = 0
    /\ versions = <<ConcStartDb>>

\* TxSees with a slip: every read goes to the file as it is now, as if
\* each read ran in a transaction of its own.
TxSeesLive(p) == db

\* The bucket tree caller p's transaction reads: the one it pinned when the
\* transaction began.
TxSees(p) == procs[p].tx

\* db.Update begins: the writer lock is taken (a second writer waits) and
\* the transaction works on its own copy of the tree.
BeginUpdate(p, c) ==
    /\ procs[p].pc = "idle"
    /\ IsWrite(c)
    /\ wlock = 0
    /\ wlock' = p
    /\ procs' = [procs EXCEPT ![p] =
                    [@ EXCEPT !.pc = "update", !.call = c, !.tx = db,
                              !.begin = Len(versions)]]
    /\ UNCHANGED <<handle, db, ret, writes, hist, versions>>

\* The transaction function runs on the writer's copy.
RunUpdate(p) ==
    /\ procs[p].pc = "update"
    /\ LET r == WriteTx(procs[p].tx, procs[p].call)
       IN procs' = [procs EXCEPT ![p] =
                       [@ EXCEPT !.pc = "commit", !.tx = r.db, !.out = r.res]]
    /\ UNCHANGED <<handle, db, ret, writes, hist, wlock, versions>>

\* db.Update ends: commit when the function returned nil, roll back when
\* it returned an error or panicked; the writer lock is released.
EndUpdate(p) ==
    /\ procs[p].pc = "commit"
    /\ LET ok == procs[p].out.out = "return" /\ procs[p].out.err = NoError
           vs == IF ok THEN Append(versions, procs[p].tx) ELSE versions
       IN /\ db' = IF ok THEN procs[p].tx ELSE db
          /\ versions' = vs
          /\ procs' = [procs EXCEPT ![p] =
                          [@ EXCEPT !.pc = "done", !.end = Len(vs)]]
    /\ wlock' = 0
    /\ UNCHANGED <<handle, ret, writes, hist>>

\* db.View begins: the transaction pins the committed tree; readers wait
\* for nobody.
BeginView(p, c) ==
    /\ procs[p].pc = "idle"
    /\ ~IsWrite(c)
    /\ procs' = [procs EXCEPT ![p] =
                    [@ EXCEPT !.pc = IF c.op = "States" THEN "cursor" ELSE "view",
                              !.call = c, !.tx = db, !.begin = Len(versions)]]
    /\ UNCHANGED <<handle, db, ret, writes, hist, wlock, versions>>

\* The transaction function of State or Config runs and the call returns.
RunView(p) ==
    /\ procs[p].pc = "view"
    /\ \E userOK \in BOOLEAN :
          procs' = [procs EXCEPT ![p] =
                       [@ EXCEPT !.pc = "done", !.end = Len(versions),
                                 !.out = ReadOutcome(TxSees(p), procs[p].call,
                                                    userOK)]]
    /\ UNCHANGED <<handle, db, ret, writes, hist, wlock, versions>>

\* One turn of the cursor loop of States: the next key after the last one
\* visited is decoded; the call returns at the end of the bucket, on a
\* decode error, or with a panic when the bucket is nil.
CursorStep(p) ==
    /\ procs[p].pc = "cursor"
    /\ LET d == TxSees(p)
           u == procs[p].call.user
           Finish(outcome) ==
               procs' = [procs EXCEPT ![p] =
                            [@ EXCEPT !.pc = "done", !.end = Len(versions),
                                      !.out = outcome]]
       IN IF u \notin DOMAIN d THEN Finish(Panic)
          ELSE IF downloadItemsBucket \notin DOMAIN d[u].buckets
               THEN Finish(Panic)
          ELSE LET items == d[u].buckets[downloadItemsBucket]
                   rest == {k \in DOMAIN items :
                               procs[p].last = <<>> \/ BytesLess(procs[p].last, k)}
               IN IF rest = {} THEN Finish(Return(procs[p].states, NoError))
                  ELSE LET k == Head(CursorOrder(rest))
                           dec == GobDecode(StateType, items[k])
                       IN IF dec.err # NoError
                          THEN Finish(Return(procs[p].states, dec.err))
                          ELSE procs' = [procs EXCEPT ![p] =
                                  [@ EXCEPT !.last = k,
                                            !.states =
                                               IF dec.val.IsHidden THEN @
                                               ELSE Append(@, dec.val)]]
    /\ UNCHANGED <<handle, db, ret, writes, hist, wlock, versions>>

NextConc ==
    \/ \E p \in Callers, c \in ConcCalls : BeginUpdate(p, c)
    \/ \E p \in Callers : RunUpdate(p)
    \/ \E p \in Callers : EndUpdate(p)
    \/ \E p \in Callers, c \in ConcCalls : BeginView(p, c)
    \/ \E p \in Callers : RunView(p)
    \/ \E p \in Callers : CursorStep(p)

SpecConc == InitConc /\ [][NextConc]_vars

\* ------------------------------------------------------------------ claims

\* The last call was op, made on an open store, and returned normally.
OpenCall(op) == ret.op = op /\ handle = "open"

Returned(val, err) == ret.out = "return" /\ ret.val = val /\ ret.err = err

\* The State most recently saved for user u under file id.
HasState(u, id) == <<u, id>> \in DOMAIN savedStates

CurrentState(u, id) == Last(savedStates[<<u, id>>])

\* C1: for a provisioned user, State(id, u) after a successful SaveState
\* with that FileID returns nil error and the record of the most recent
\* such SaveState (round trip, upsert, last write wins).
C1_StateRoundTrip ==
    (OpenCall("State") /\ ret.user \in provisioned /\ HasState(ret.user, ret.id))
        => Returned(<<CurrentState(ret.user, ret.id)>>, NoError)

\* A State call that reads a key saved twice with different records.
C1_Witness ==
    /\ OpenCall("State") /\ ret.user \in provisioned
    /\ HasState(ret.user, ret.id)
    /\ Len(savedStates[<<ret.user, ret.id>>]) = 2
    /\ savedStates[<<ret.user, ret.id>>][1] # savedStates[<<ret.user, ret.id>>][2]
    /\ ret.err = NoError

\* C2: for a provisioned user, Config(u) after a successful SaveConfig
\* returns nil error and the most recently saved configuration, whatever
\* else was done to the store in between.
C2_ConfigRoundTrip ==
    (OpenCall("Config") /\ ret.user \in provisioned
        /\ ret.user \in DOMAIN savedConfigs)
        => Returned(<<Last(savedConfigs[ret.user])>>, NoError)

\* A Config call that reads back a saved configuration of a user who also
\* has a download state saved.
C2_Witness ==
    /\ OpenCall("Config") /\ ret.user \in provisioned
    /\ ret.user \in DOMAIN savedConfigs
    /\ Last(savedConfigs[ret.user]) = CustomConfig
    /\ ret.val = <<CustomConfig>>
    /\ \E id \in FileIDs : HasState(ret.user, id)

\* Whether the last call failed only because user.Current() failed.
AccountLookupFailed == ret.out = "return" /\ ret.err = ErrUserCurrent

\* C3: on an open store, Config("") and Config(u) for a user u that was
\* never provisioned return the computed default configuration and no
\* error (stated for the calls in which the account lookup succeeds).
C3_UnprovisionedDefault ==
    (OpenCall("Config") /\ ret.user \notin provisioned /\ ~AccountLookupFailed)
        => Returned(<<ComputedDefault>>, NoError)

\* The fields of the default configuration.
IsDefaultConfig(c) ==
    /\ c.IsPaused = TRUE
    /\ c.DownloadFrom = -1
    /\ c.SegmentsPerFile = 3
    /\ c.MaxParallelFiles = 2
    /\ c.PollInterval = 2 * Minute
    /\ c = ComputedDefault

\* The last call was Config for a provisioned user without a saved config.
ConfigOfFreshUser ==
    /\ OpenCall("Config")
    /\ ret.user \in provisioned
    /\ ret.user \notin DOMAIN savedConfigs

\* C4 as claimed: for a provisioned user without a saved config, Config
\* returns the default configuration with nil error, and Config never
\* returns ErrConfigNotFound.
C4_AlwaysDefault ==
    /\ ConfigOfFreshUser =>
          /\ ret.out = "return" /\ ret.err = NoError
          /\ Len(ret.val) = 1 /\ IsDefaultConfig(ret.val[1])
    /\ ret.op = "Config" => ret.err # ErrConfigNotFound

\* C4 as amended: for a provisioned user without a saved config, Config
\* returns the default configuration with nil error when user.Current()
\* succeeds and a nil configuration with that lookup's error when it
\* fails; Config never returns ErrConfigNotFound.
C4_DefaultUnlessLookupFails ==
    /\ ConfigOfFreshUser =>
          /\ ret.out = "return"
          /\ \/ /\ ret.err = NoError
                /\ Len(ret.val) = 1 /\ IsDefaultConfig(ret.val[1])
             \/ /\ ret.err = ErrUserCurrent
                /\ ret.val = <<>>
    /\ ret.op = "Config" => ret.err # ErrConfigNotFound

\* Config of a provisioned user without a saved config returned the default.
C4_Witness ==
    /\ ConfigOfFreshUser
    /\ ret.user = "alice"
    /\ Returned(<<ComputedDefault>>, NoError)

\* The number of entries of the listing s whose FileID is id.
RECURSIVE CountID(_, _)
CountID(s, id) ==
    IF s = <<>> THEN 0
    ELSE (IF Head(s).FileID = id THEN 1 ELSE 0) + CountID(Tail(s), id)

\* Whether the record currently stored for (u, id) exists and is visible.
Visible(u, id) == HasState(u, id) /\ ~CurrentState(u, id).IsHidden

\* C5: for a provisioned user, States(u) holds exactly one entry, the
\* stored record, for each FileID whose stored record is not hidden, and
\* no entry for any other FileID.
C5_HiddenFilter ==
    (OpenCall("States") /\ ret.user \in provisioned) =>
        /\ ret.out = "return" /\ ret.err = NoError
        /\ \A id \in FileIDs :
              CountID(ret.val, id) = IF Visible(ret.user, id) THEN 1 ELSE 0
        /\ \A i \in 1..Len(ret.val) :
              ret.val[i] = CurrentState(ret.user, ret.val[i].FileID)

\* A listing that omits a record first saved visible and re-saved hidden.
C5_Witness ==
    /\ OpenCall("States") /\ ret.user \in provisioned
    /\ ret.val = <<>>
    /\ \E id \in FileIDs :
          /\ HasState(ret.user, id)
          /\ Len(savedStates[<<ret.user, id>>]) = 2
          /\ ~savedStates[<<ret.user, id>>][1].IsHidden
          /\ savedStates[<<ret.user, id>>][2].IsHidden

\* C6: for a provisioned user, States(u) lists its records in ascending
\* numeric order of FileID, negative identifiers included.
C6_AscendingFileID ==
    (OpenCall("States") /\ ret.user \in provisioned /\ ret.out = "return") =>
        \A i, j \in 1..Len(ret.val) :
            i < j => ret.val[i].FileID < ret.val[j].FileID

\* C7: for a provisioned user, State(id, u) fails with ErrStateNotFound
\* when no SaveState for u with that FileID has succeeded, also when the
\* id was saved for another user.
C7_StateNotFound ==
    (OpenCall("State") /\ ret.user \in provisioned
        /\ ~HasState(ret.user, ret.id))
        => (ret.out = "return" /\ ret.err = ErrStateNotFound)

\* A State call for an id that only another user has saved.
C7_Witness ==
    /\ OpenCall("State") /\ ret.user \in provisioned
    /\ ~HasState(ret.user, ret.id)
    /\ \E v \in Users \ {ret.user} : HasState(v, ret.id)
    /\ ret.err = ErrStateNotFound

\* C8: a SaveState or SaveConfig call for a user that was never
\* provisioned returns a non-nil error to the caller, does not create the
\* user's namespace and leaves the store contents unchanged.
C8_WriteUnprovisionedFails ==
    [][(handle = "open" /\ ret'.op \in {"SaveState", "SaveConfig"}
          /\ ret'.user \notin provisioned)
          => /\ ret'.out = "return" /\ ret'.err # NoError
             /\ db' = db]_vars

\* C9: Open never returns nil while the store's handle is closed.
C9_OpenReportsFailure ==
    (ret.op = "Open" /\ handle = "closed")
        => (ret.out = "return" /\ ret.err # NoError)

\* C10: CurrentUser returns "" and nil error while SaveCurrentUser was
\* never called, and otherwise the argument of the most recent
\* SaveCurrentUser, whatever else was done to the store.
C10_CurrentUserRegister ==
    OpenCall("CurrentUser") =>
        Returned(IF savedUsers = <<>> THEN "" ELSE Last(savedUsers), NoError)

\* CurrentUser read after two different names were saved and the user
\* named like the global bucket was provisioned.
C10_Witness ==
    /\ OpenCall("CurrentUser")
    /\ Len(savedUsers) = 2 /\ savedUsers[1] # savedUsers[2]
    /\ defaultsBucket \in provisioned
    /\ ret.val = savedUsers[2]

\* C11: CreateBuckets(u) for a user that is already provisioned succeeds
\* and leaves every namespace and every stored record as it was.
C11_CreateBucketsIdempotent ==
    [][(handle = "open" /\ ret'.op = "CreateBuckets"
          /\ ret'.user \in provisioned)
          => /\ ret'.out = "return" /\ ret'.err = NoError
             /\ db' = db]_vars

\* CreateBuckets was the last call, for a user who already had a download
\* state saved (so the user was provisioned before this call).
C11_Witness ==
    /\ OpenCall("CreateBuckets")
    /\ ret.err = NoError
    /\ \E id \in FileIDs : HasState(ret.user, id)

\* C12: States("") returns an empty sequence and nil error in every state
\* of the store.
C12_StatesEmptyUser ==
    (ret.op = "States" /\ ret.user = "") => Returned(<<>>, NoError)

\* States("") called while states are stored and a current user is set.
C12_Witness ==
    /\ OpenCall("States") /\ ret.user = ""
    /\ DOMAIN savedStates # {}
    /\ savedUsers # <<>>

\* The state the concurrent callers start from is one the store reaches by
\* calls made one after the other.
ConcStartReached ==
    /\ handle = "open" /\ db = ConcStartDb /\ writes = 2
    /\ provisioned = {"alice"}
    /\ ret = Call("SaveState", "alice", 1, Return(<<>>, NoError))

\* Caller p has finished a call of method kind.
Done(p) == procs # EmptyMap /\ procs[p].pc = "done"

\* The outcome of reader p is the one its call has on the committed file
\* as it was at some moment between the call's start and its return.
ReadIsAtomic(p) ==
    \E i \in procs[p].begin .. procs[p].end, userOK \in BOOLEAN :
        procs[p].out = ReadOutcome(versions[i], procs[p].call, userOK)

\* Writer p committed.
HasCommitted(p) ==
    /\ Done(p) /\ IsWrite(procs[p].call)
    /\ procs[p].out.out = "return" /\ procs[p].out.err = NoError

\* C13: a read that runs concurrently with saves returns what it would
\* return on the file entirely before or entirely after each of them, and
\* the saves take effect one after the other: every committed save turned
\* the committed file before it into the one after it.
C13_SavesAtomic ==
    procs # EmptyMap =>
        /\ db = Last(versions)
        /\ \A p \in Callers :
              (Done(p) /\ ~IsWrite(procs[p].call)) => ReadIsAtomic(p)
        /\ \A p \in Callers :
              HasCommitted(p) =>
                  /\ procs[p].end >= 2
                  /\ versions[procs[p].end] =
                        WriteTx(versions[procs[p].end - 1], procs[p].call).db
        /\ Len(versions) = 1 + Cardinality({p \in Callers : HasCommitted(p)})

\* A listing returned after two saves were committed while it ran.
C13_Witness ==
    /\ procs # EmptyMap
    /\ \E p \in Callers :
          /\ Done(p) /\ procs[p].call.op = "States"
          /\ procs[p].begin = 1 /\ procs[p].end = 3

\* Callers p and q ran Config for the same user at the same time while no
\* save was in progress or committed: both started on the same committed
\* file, nothing was committed until both had returned, and no writer holds
\* the lock.
ConcurrentConfigs(p, q) ==
    /\ p # q /\ Done(p) /\ Done(q) /\ wlock = 0
    /\ procs[p].call.op = "Config" /\ procs[q].call = procs[p].call
    /\ procs[p].begin = procs[q].begin
    /\ procs[p].end = procs[p].begin /\ procs[q].end = procs[p].begin

\* C14: two concurrent Config(u) calls with no write in progress both
\* return a configuration and no error, and the same configuration (a call
\* whose account lookup failed is left out of the statement).
C14_ConcurrentConfig ==
    procs # EmptyMap =>
        \A p, q \in Callers :
            ConcurrentConfigs(p, q) =>
                /\ procs[p].out.out = "return" /\ procs[q].out.out = "return"
                /\ \/ procs[p].out.err = ErrUserCurrent
                   \/ procs[q].out.err = ErrUserCurrent
                   \/ /\ procs[p].out.err = NoError
                      /\ procs[q].out.err = NoError
                      /\ procs[p].out.val = procs[q].out.val

\* User u's bucket and its two child buckets exist.
HasNamespaces(u) ==
    /\ u \in DOMAIN db
    /\ downloadItemsBucket \in DOMAIN db[u].buckets
    /\ watchedTorrentsBucket \in DOMAIN db[u].buckets

\* C15: after CreateBuckets(u) has succeeded, u's bucket and both child
\* buckets exist in every later state; after SaveState(s, u) has succeeded,
\* the record is still in the file and no State(s.FileID, u) call returns
\* ErrStateNotFound, whatever calls came in between (Close and Open
\* included).
C15_NothingLost ==
    /\ \A u \in provisioned : HasNamespaces(u)
    /\ \A k \in DOMAIN savedStates :
          /\ HasNamespaces(k[1])
          /\ itob(k[2]) \in DOMAIN db[k[1]].buckets[downloadItemsBucket]
          /\ StateTx(db, k[2], k[1]).err # ErrStateNotFound
    /\ (ret.op = "State" /\ HasState(ret.user, ret.id))
          => ~(ret.out = "return" /\ ret.err = ErrStateNotFound)

\* The store was opened again after a record had been saved in an earlier
\* session, and the record was then read back.
C15_Witness ==
    /\ ret.op = "Open" /\ ret.err = NoError /\ handle = "open"
    /\ provisioned # {}
    /\ \E k \in DOMAIN savedStates :
          StateTx(db, k[2], k[1]) = Return(<<CurrentState(k[1], k[2])>>, NoError)

\* A download-state or config record is stored for user u.
HasRecord(u) ==
    /\ u \in DOMAIN db
    /\ \/ configKey \in DOMAIN db[u].keys
       \/ /\ downloadItemsBucket \in DOMAIN db[u].buckets
          /\ DOMAIN db[u].buckets[downloadItemsBucket] # {}

\* C16: for every user identifier u, a top-level bucket named u comes with
\* both child buckets, and no record is stored for u without them.
C16_NamespacesTogether ==
    \A u \in Users :
        /\ u \in DOMAIN db => HasNamespaces(u)
        /\ HasRecord(u) => HasNamespaces(u)

\* Every entry of u's download-items bucket decodes, and its key is the
\* 8-byte big-endian encoding of the FileID stored under it.
KeysMatchFileIDs(u) ==
    (u \in DOMAIN db /\ downloadItemsBucket \in DOMAIN db[u].buckets) =>
        LET items == db[u].buckets[downloadItemsBucket]
        IN \A k \in DOMAIN items :
              LET dec == GobDecode(StateType, items[k])
              IN dec.err = NoError /\ Len(k) = 8 /\ k = itob(dec.val.FileID)

\* C17: in every state the key of every download-items entry is the
\* big-endian encoding of the FileID of the record under it, and a State(id,
\* u) call that returns a record returns one whose FileID is id.
C17_KeyIsFileID ==
    /\ \A u \in Users : KeysMatchFileIDs(u)
    /\ (ret.op = "State" /\ ret.out = "return" /\ ret.err = NoError)
          => ret.val[1].FileID = ret.id

\* State(256, u) returned a record while the same user also holds records
\* under other keys.
C17_Witness ==
    /\ OpenCall("State") /\ Returned(ret.val, NoError) /\ ret.id = 256
    /\ ret.val[1].FileID = 256
    /\ Cardinality(DOMAIN db[ret.user].buckets[downloadItemsBucket]) >= 2

\* Some record of user u cannot be decoded.
HasUndecodable(u) ==
    /\ u \in DOMAIN db
    /\ downloadItemsBucket \in DOMAIN db[u].buckets
    /\ \E k \in DOMAIN db[u].buckets[downloadItemsBucket] :
          GobDecode(StateType, db[u].buckets[downloadItemsBucket][k]).err # NoError

\* C18: States(u) on a bucket that holds a record gob cannot decode
\* returns a non-nil error and none of the records decoded before it.
C18_NoPartialListing ==
    (OpenCall("States") /\ HasUndecodable(ret.user))
        => /\ ret.out = "return"
           /\ ret.err # NoError
           /\ ret.val = <<>>

\* What the file holds for user v, and what v's reads return, is the same
\* in the tree d1 as in the tree d2.
SameFor(v, d1, d2) ==
    \/ d1 = d2
    \/ /\ (v \in DOMAIN d1) = (v \in DOMAIN d2)
       /\ v \in DOMAIN d1 => d1[v] = d2[v]
       /\ \A id \in FileIDs : StateTx(d1, id, v) = StateTx(d2, id, v)
       /\ StatesTx(d1, v) = StatesTx(d2, v)
       /\ \A userOK \in BOOLEAN :
             ConfigFallback(ConfigTx(d1, v), userOK)
                = ConfigFallback(ConfigTx(d2, v), userOK)

\* C19: CreateBuckets(u), SaveState(s, u) and SaveConfig(c, u) leave every
\* other user's buckets, records and configuration and the current-user
\* pointer as they were, and State, States and Config for every other user
\* return after the call what they returned before it.
C19_TenantIsolation ==
    [][ret'.op \in {"CreateBuckets", "SaveState", "SaveConfig"}
          => /\ \A v \in Users \ {ret'.user} : SameFor(v, db, db')
             /\ (defaultsBucket \in DOMAIN db
                   => CurrentUserTx(db') = CurrentUserTx(db))]_vars

\* A save for one user succeeded and stored a record while another user
\* is provisioned.
C19_Witness ==
    /\ handle = "open"
    /\ ret.op \in {"SaveState", "SaveConfig"} /\ Returned(<<>>, NoError)
    /\ \E v \in provisioned \ {ret.user} : HasNamespaces(v)
    /\ HasRecord(ret.user)

\* C20: the global bucket "defaults" holds at most the key current-user and
\* no child bucket, whatever user identifiers CreateBuckets, SaveState and
\* SaveConfig were called with.
C20_DefaultsOnlyCurrentUser ==
    defaultsBucket \in DOMAIN db =>
        /\ DOMAIN db[defaultsBucket].keys \subseteq {currentUserKey}
        /\ DOMAIN db[defaultsBucket].buckets = {}

====
